---- MODULE Spec2Model ----
(***************************************************************************)
(* Model of src/main.py: two channel tasks (monitor_stream for "fm" and    *)
(* "efm") run on one asyncio event loop and share one asyncio.Lock around  *)
(* the Shazam recognition call.  Every action is one run of a task from    *)
(* one suspension point (await) to the next.  Time is a discrete clock     *)
(* that is observed every Quantum seconds.                                 *)
(***************************************************************************)
EXTENDS Integers, Sequences, FiniteSets, TLC

\* ---------------------------------------------------------------- constants
Channels == {"fm", "efm"}
Keys == {"A", "B"}
None == "None"
NoEntry == "NoEntry"
TrackKeys == Keys \cup {None}

RateLimitSleep == 60
CaptureFailSleep == 30
CriticalSleep == 30
BaseInterval == 30
MaxJitter == 5
EfmStartDelay == 12

Quantum == 30
MaxInst == 2
MaxCalls == 2

Jitters == {0, MaxJitter}
BoolSet == {TRUE, FALSE}

StartDelay(c) == IF c = "fm" THEN 0 ELSE EfmStartDelay

Max(a, b) == IF a > b THEN a ELSE b

\* ---------------------------------------------------------------- state
VARIABLES
  FIREBASE_READY,      \* result of init_firebase_auth()
  LAST_DETECTED_KEY,   \* dict channel_id -> key
  LAST_SENT_STATUS,    \* dict channel_id -> None | 'music' | 'empty'
  shazam,              \* per task: identity of the Shazam instance held
  locked,              \* api_lock._locked
  waiters,             \* api_lock._waiters (FIFO of tasks)
  pc,                  \* per task: the await it is suspended at
  timer,               \* per task: seconds left of the asyncio.sleep
  cur,                 \* per task: key of the track being published
  mainState            \* main(): "running" | "exited"

prog == <<FIREBASE_READY, LAST_DETECTED_KEY, LAST_SENT_STATUS, shazam,
          locked, waiters, pc, timer, cur, mainState>>

\* Observers.  They record, for one observed channel (probe), what its
\* task did; no action of the program reads them.
VARIABLES
  probe,      \* the observed channel
  watch,      \* the groups of observers switched on
  h_out,      \* outcome of the current cycle so far
  h_trk,      \* key of the track recognize_song returned in this cycle
  h_sink,     \* PublicationSink call made in this cycle
  h_run,      \* run of consecutive cycles with the same recognition result
  h_calls,    \* PublicationSink calls made during the run
  h_rlHold,   \* seconds left until 60 s have passed since the rate-limit error
  h_failed,   \* client used by the call that ended in the rate-limit error
  h_raised    \* the rebuild after that error raised

hist == <<probe, watch, h_out, h_trk, h_sink, h_run, h_calls, h_rlHold, h_failed, h_raised>>

\* Further observers of the observed channel, in groups of their own.
VARIABLES
  h_pub,         \* key of the last publication that returned, None after a clear
  h_prevKeyless, \* the previous cycle published a track without a key
  h_scn,         \* progress through "A, then B or a clear, then A again"
  h_wHold,       \* seconds the next capture still has to wait
  h_waited       \* the task queued for the lock in this cycle

hist2 == <<h_pub, h_prevKeyless, h_scn, h_wHold, h_waited>>

vars == <<prog, hist, hist2>>

\* ---------------------------------------------------------------- helpers
\* dict.get(channel_id): None when the channel has no entry
Get(d, c) == IF d[c] = NoEntry THEN None ELSE d[c]

Wake_Nobody(p) == p

\* Lock.release(): _locked = False, then _wake_up_first() completes the
\* future of the first waiter; the waiter stays queued until it runs again.
Wake(p) ==
  IF waiters # <<>> /\ p[Head(waiters)] = "lock_wait"
    THEN [p EXCEPT ![Head(waiters)] = "lock_woken"]
    ELSE p

LockFree_Unchecked == TRUE

\* Lock.acquire() fast path: free and nobody queued
LockFree == ~locked /\ waiters = <<>>

Released_Skipped == locked

\* Lock.release() in __aexit__ of "async with lock", on return and on
\* exception alike: _locked = False
Released == FALSE

WaitTime_Short(j) == j

\* wait_time = 30 + random.uniform(0, 5)
WaitTime(j) == BaseInterval + j

HandlerPc_AlwaysBackoff(sig) == "rl_sleep"

\* inner "except Exception": rate-limit signature in str(e) or not
HandlerPc(sig) == IF sig THEN "rl_sleep" ELSE "wait"
HandlerTimer_NoBackoff(sig, j) == IF sig THEN 0 ELSE WaitTime(j)
HandlerTimer(sig, j) == IF sig THEN RateLimitSleep ELSE WaitTime(j)

\* Shazam(): a new instance, never one built before
NewClient(c) == shazam[c] + 1

Running(c) == mainState = "running" /\ pc[c] \notin {"crashed", "cancelled"}

\* ---------------------------------------------------------------- Init
ProgInit ==
  /\ FIREBASE_READY \in BoolSet
  /\ LAST_DETECTED_KEY = [c \in Channels |-> NoEntry]
  /\ LAST_SENT_STATUS = [c \in Channels |-> NoEntry]
  /\ shazam = [c \in Channels |-> 0]
  /\ locked = FALSE
  /\ waiters = <<>>
  /\ pc = [c \in Channels |-> "starting"]
  /\ timer = [c \in Channels |-> StartDelay(c)]
  /\ cur = [c \in Channels |-> None]
  /\ mainState = "running"

\* ---------------------------------------------------------------- actions
\* monitor_stream lines 190-208: after the start delay, reset the channel's
\* state, build the Shazam client (outside any try) and start the first
\* capture.
Start(c, ctorOk) ==
  /\ Running(c) /\ pc[c] = "starting" /\ timer[c] = 0
  /\ LAST_DETECTED_KEY' = [LAST_DETECTED_KEY EXCEPT ![c] = None]
  /\ LAST_SENT_STATUS' = [LAST_SENT_STATUS EXCEPT ![c] = None]
  /\ IF ctorOk
       THEN /\ shazam' = [shazam EXCEPT ![c] = NewClient(c)]
            /\ pc' = [pc EXCEPT ![c] = "capture"]
       ELSE /\ shazam' = shazam
            /\ pc' = [pc EXCEPT ![c] = "crashed"]
  /\ UNCHANGED <<FIREBASE_READY, locked, waiters, timer, cur, mainState>>

ProceedToRecognition_Always(res) == res \in {"ok", "fail"}

\* line 210: success and os.path.exists(temp_file)
ProceedToRecognition(res) == res = "ok"

\* lines 208-214 and 244-251: capture_audio_segment returns or raises.
\* On success the task enters "async with lock" in the same run.
CaptureDone(c, res) ==
  /\ Running(c) /\ pc[c] = "capture"
  /\ CASE ProceedToRecognition(res) /\ LockFree ->
            /\ locked' = TRUE
            /\ pc' = [pc EXCEPT ![c] = "recognize"]
            /\ UNCHANGED <<waiters, timer>>
       [] ProceedToRecognition(res) /\ ~LockFree ->
            /\ waiters' = Append(waiters, c)
            /\ pc' = [pc EXCEPT ![c] = "lock_wait"]
            /\ UNCHANGED <<locked, timer>>
       [] ~ProceedToRecognition(res) /\ res = "fail" ->
            /\ pc' = [pc EXCEPT ![c] = "capfail_sleep"]
            /\ timer' = [timer EXCEPT ![c] = CaptureFailSleep]
            /\ UNCHANGED <<locked, waiters>>
       [] ~ProceedToRecognition(res) /\ res = "raise" ->
            /\ pc' = [pc EXCEPT ![c] = "crit_sleep"]
            /\ timer' = [timer EXCEPT ![c] = CriticalSleep]
            /\ UNCHANGED <<locked, waiters>>
  /\ UNCHANGED <<FIREBASE_READY, LAST_DETECTED_KEY, LAST_SENT_STATUS, shazam,
                 cur, mainState>>

\* Lock.acquire() slow path resumes: the woken waiter leaves the queue and
\* takes the lock, then calls recognize_song.
LockResume(c) ==
  /\ Running(c) /\ pc[c] = "lock_woken"
  /\ waiters' = SelectSeq(waiters, LAMBDA w : w # c)
  /\ locked' = TRUE
  /\ pc' = [pc EXCEPT ![c] = "recognize"]
  /\ UNCHANGED <<FIREBASE_READY, LAST_DETECTED_KEY, LAST_SENT_STATUS, shazam,
                 timer, cur, mainState>>

\* lines 213-214 and 234-243: recognize_song raises; "async with" releases
\* the lock, the inner handler tests the message for the signature.
RecognizeRaise(c, sig, j) ==
  /\ Running(c) /\ pc[c] = "recognize"
  /\ sig => shazam[c] < MaxInst
  /\ locked' = Released
  /\ pc' = Wake([pc EXCEPT ![c] = HandlerPc(sig)])
  /\ timer' = [timer EXCEPT ![c] = HandlerTimer(sig, j)]
  /\ UNCHANGED <<FIREBASE_READY, LAST_DETECTED_KEY, LAST_SENT_STATUS, shazam,
                 waiters, cur, mainState>>

IsDuplicate_KeyOptional(c, k) == k = Get(LAST_DETECTED_KEY, c)

\* on_music_detected line 173: the duplicate test
IsDuplicate(c, k) == k # None /\ k = Get(LAST_DETECTED_KEY, c)

KeyAfterSave_Shared(c, k) == [d \in Channels |-> k]

\* lines 180-182 then 221: what a returned save_to_firebase_rest leaves
KeyAfterSave(c, k) ==
  IF k # None THEN [LAST_DETECTED_KEY EXCEPT ![c] = k] ELSE LAST_DETECTED_KEY

StatusAfterDetect_Flip(c) ==
  [LAST_SENT_STATUS EXCEPT ![c] = IF @ = "music" THEN None ELSE "music"]

\* line 221, reached whenever on_music_detected returns
StatusAfterDetect(c) == [LAST_SENT_STATUS EXCEPT ![c] = "music"]

\* lines 213-221 with on_music_detected (160-184) and the synchronous head
\* of save_to_firebase_rest (65-73, get_access_token 52-63): recognize_song
\* returned a track with key k; tok is what get_access_token does.
RecognizeMatched(c, k, tok, sig, j) ==
  /\ Running(c) /\ pc[c] = "recognize"
  /\ locked' = Released
  /\ CASE IsDuplicate(c, k) ->
            /\ LAST_SENT_STATUS' = StatusAfterDetect(c)
            /\ pc' = Wake([pc EXCEPT ![c] = "wait"])
            /\ timer' = [timer EXCEPT ![c] = WaitTime(j)]
            /\ UNCHANGED <<LAST_DETECTED_KEY, cur>>
       [] ~IsDuplicate(c, k) /\ ~FIREBASE_READY ->
            /\ LAST_SENT_STATUS' = StatusAfterDetect(c)
            /\ pc' = Wake([pc EXCEPT ![c] = "wait"])
            /\ timer' = [timer EXCEPT ![c] = WaitTime(j)]
            /\ UNCHANGED <<LAST_DETECTED_KEY, cur>>
       [] ~IsDuplicate(c, k) /\ FIREBASE_READY /\ tok = "raise" ->
            /\ sig => shazam[c] < MaxInst
            /\ pc' = Wake([pc EXCEPT ![c] = HandlerPc(sig)])
            /\ timer' = [timer EXCEPT ![c] = HandlerTimer(sig, j)]
            /\ UNCHANGED <<LAST_DETECTED_KEY, LAST_SENT_STATUS, cur>>
       [] ~IsDuplicate(c, k) /\ FIREBASE_READY /\ tok = "none" ->
            /\ LAST_DETECTED_KEY' = KeyAfterSave(c, k)
            /\ LAST_SENT_STATUS' = StatusAfterDetect(c)
            /\ pc' = Wake([pc EXCEPT ![c] = "wait"])
            /\ timer' = [timer EXCEPT ![c] = WaitTime(j)]
            /\ UNCHANGED cur
       [] ~IsDuplicate(c, k) /\ FIREBASE_READY /\ tok = "token" ->
            /\ cur' = [cur EXCEPT ![c] = k]
            /\ pc' = Wake([pc EXCEPT ![c] = "publishing"])
            /\ UNCHANGED <<LAST_DETECTED_KEY, LAST_SENT_STATUS, timer>>
  /\ UNCHANGED <<FIREBASE_READY, shazam, waiters, mainState>>

\* save_to_firebase_rest lines 86-101 return (every response status and
\* every request error is only printed), then lines 180-182 and 221.
PublishDone(c, resp, j) ==
  /\ Running(c) /\ pc[c] = "publishing"
  /\ LAST_DETECTED_KEY' = KeyAfterSave(c, cur[c])
  /\ LAST_SENT_STATUS' = StatusAfterDetect(c)
  /\ cur' = [cur EXCEPT ![c] = None]
  /\ pc' = [pc EXCEPT ![c] = "wait"]
  /\ timer' = [timer EXCEPT ![c] = WaitTime(j)]
  /\ UNCHANGED <<FIREBASE_READY, shazam, locked, waiters, mainState>>

KeyAfterClear_Kept(c) == LAST_DETECTED_KEY

\* line 231
KeyAfterClear(c) == [LAST_DETECTED_KEY EXCEPT ![c] = None]

\* line 232
StatusAfterClear(c) == [LAST_SENT_STATUS EXCEPT ![c] = "empty"]

\* lines 213-216 and 222-232 with the synchronous head of
\* clear_now_playing_rest (103-110): recognize_song returned no track.
RecognizeNoMatch(c, tok, sig, j) ==
  /\ Running(c) /\ pc[c] = "recognize"
  /\ locked' = Released
  /\ CASE Get(LAST_SENT_STATUS, c) = "empty" ->
            /\ pc' = Wake([pc EXCEPT ![c] = "wait"])
            /\ timer' = [timer EXCEPT ![c] = WaitTime(j)]
            /\ UNCHANGED <<LAST_DETECTED_KEY, LAST_SENT_STATUS>>
       [] Get(LAST_SENT_STATUS, c) # "empty" /\ ~FIREBASE_READY ->
            /\ LAST_DETECTED_KEY' = KeyAfterClear(c)
            /\ LAST_SENT_STATUS' = StatusAfterClear(c)
            /\ pc' = Wake([pc EXCEPT ![c] = "wait"])
            /\ timer' = [timer EXCEPT ![c] = WaitTime(j)]
       [] Get(LAST_SENT_STATUS, c) # "empty" /\ FIREBASE_READY /\ tok = "raise" ->
            /\ sig => shazam[c] < MaxInst
            /\ pc' = Wake([pc EXCEPT ![c] = HandlerPc(sig)])
            /\ timer' = [timer EXCEPT ![c] = HandlerTimer(sig, j)]
            /\ UNCHANGED <<LAST_DETECTED_KEY, LAST_SENT_STATUS>>
       [] Get(LAST_SENT_STATUS, c) # "empty" /\ FIREBASE_READY /\ tok = "none" ->
            /\ LAST_DETECTED_KEY' = KeyAfterClear(c)
            /\ LAST_SENT_STATUS' = StatusAfterClear(c)
            /\ pc' = Wake([pc EXCEPT ![c] = "wait"])
            /\ timer' = [timer EXCEPT ![c] = WaitTime(j)]
       [] Get(LAST_SENT_STATUS, c) # "empty" /\ FIREBASE_READY /\ tok = "token" ->
            /\ pc' = Wake([pc EXCEPT ![c] = "clearing"])
            /\ UNCHANGED <<LAST_DETECTED_KEY, LAST_SENT_STATUS, timer>>
  /\ UNCHANGED <<FIREBASE_READY, shazam, waiters, cur, mainState>>

\* clear_now_playing_rest lines 116-125 return, then lines 230-232.
ClearDone(c, resp, j) ==
  /\ Running(c) /\ pc[c] = "clearing"
  /\ LAST_DETECTED_KEY' = KeyAfterClear(c)
  /\ LAST_SENT_STATUS' = StatusAfterClear(c)
  /\ pc' = [pc EXCEPT ![c] = "wait"]
  /\ timer' = [timer EXCEPT ![c] = WaitTime(j)]
  /\ UNCHANGED <<FIREBASE_READY, shazam, locked, waiters, cur, mainState>>

\* lines 240-241 and 249-251: the 60 s sleep is over, the client is rebuilt;
\* a constructor that raises lands in the outer handler.
RlSleepDone(c, ctorOk, j) ==
  /\ Running(c) /\ pc[c] = "rl_sleep" /\ timer[c] = 0
  /\ IF ctorOk
       THEN /\ shazam' = [shazam EXCEPT ![c] = NewClient(c)]
            /\ pc' = [pc EXCEPT ![c] = "wait"]
            /\ timer' = [timer EXCEPT ![c] = WaitTime(j)]
       ELSE /\ shazam' = shazam
            /\ pc' = [pc EXCEPT ![c] = "crit_sleep"]
            /\ timer' = [timer EXCEPT ![c] = CriticalSleep]
  /\ UNCHANGED <<FIREBASE_READY, LAST_DETECTED_KEY, LAST_SENT_STATUS, locked,
                 waiters, cur, mainState>>

\* lines 247 and 255-256: the capture-failure cooldown is over
CapFailSleepDone(c, j) ==
  /\ Running(c) /\ pc[c] = "capfail_sleep" /\ timer[c] = 0
  /\ pc' = [pc EXCEPT ![c] = "wait"]
  /\ timer' = [timer EXCEPT ![c] = WaitTime(j)]
  /\ UNCHANGED <<FIREBASE_READY, LAST_DETECTED_KEY, LAST_SENT_STATUS, shazam,
                 locked, waiters, cur, mainState>>

\* lines 251 and 255-256: the outer handler's cooldown is over
CritSleepDone(c, j) ==
  /\ Running(c) /\ pc[c] = "crit_sleep" /\ timer[c] = 0
  /\ pc' = [pc EXCEPT ![c] = "wait"]
  /\ timer' = [timer EXCEPT ![c] = WaitTime(j)]
  /\ UNCHANGED <<FIREBASE_READY, LAST_DETECTED_KEY, LAST_SENT_STATUS, shazam,
                 locked, waiters, cur, mainState>>

WaitDone_Gated(c) ==
  /\ Running(c) /\ pc[c] = "wait" /\ timer[c] = 0
  /\ LockFree
  /\ pc' = [pc EXCEPT ![c] = "capture"]
  /\ UNCHANGED <<FIREBASE_READY, LAST_DETECTED_KEY, LAST_SENT_STATUS, shazam,
                 locked, waiters, timer, cur, mainState>>

\* lines 256 and 205-208: the inter-cycle sleep is over, the next capture
\* starts; the lock plays no part in it.
WaitDone(c) ==
  /\ Running(c) /\ pc[c] = "wait" /\ timer[c] = 0
  /\ pc' = [pc EXCEPT ![c] = "capture"]
  /\ UNCHANGED <<FIREBASE_READY, LAST_DETECTED_KEY, LAST_SENT_STATUS, shazam,
                 locked, waiters, timer, cur, mainState>>

\* main lines 275-284: gather() re-raises the first exception of a task,
\* main() ends and asyncio.run cancels every task still running.
MainExit ==
  /\ mainState = "running"
  /\ \E c \in Channels : pc[c] = "crashed"
  /\ mainState' = "exited"
  /\ pc' = [c \in Channels |-> IF pc[c] = "crashed" THEN "crashed" ELSE "cancelled"]
  /\ timer' = [c \in Channels |-> 0]
  /\ cur' = [c \in Channels |-> None]
  /\ locked' = FALSE
  /\ waiters' = <<>>
  /\ UNCHANGED <<FIREBASE_READY, LAST_DETECTED_KEY, LAST_SENT_STATUS, shazam>>

\* the clock: Quantum seconds pass for every pending asyncio.sleep
Elapse(t) == Max(0, t - Quantum)

Tick ==
  /\ mainState = "running"
  /\ \E c \in Channels : timer[c] > 0
  /\ timer' = [c \in Channels |-> Elapse(timer[c])]
  /\ UNCHANGED <<FIREBASE_READY, LAST_DETECTED_KEY, LAST_SENT_STATUS, shazam,
                 locked, waiters, pc, cur, mainState>>

CaptureResults == {"ok", "fail", "raise"}
TokenResults == {"token", "none", "raise"}
HttpResults == {"ok", "status", "error"}

\* ---------------------------------------------------------------- observers
ObsInit ==
  /\ h_out = "-"
  /\ h_trk = None
  /\ h_sink = "none"
  /\ h_run = "norun"
  /\ h_calls = 0
  /\ h_rlHold = 0
  /\ h_failed = 0
  /\ h_raised = FALSE

\* a group of observers records the steps of the observed channel when the
\* group is switched on
Watching(c, g) == c = probe /\ g \in watch

ObsCycle(c, out, trk, sink) ==
  IF Watching(c, "cycle")
    THEN h_out' = out /\ h_trk' = trk /\ h_sink' = sink
    ELSE UNCHANGED <<h_out, h_trk, h_sink>>

ObsRuns(c, run, calls) ==
  IF Watching(c, "runs")
    THEN h_run' = run /\ h_calls' = calls
    ELSE UNCHANGED <<h_run, h_calls>>

ObsRate(c, hold, failed, raised) ==
  IF Watching(c, "rate")
    THEN h_rlHold' = hold /\ h_failed' = failed /\ h_raised' = raised
    ELSE UNCHANGED <<h_rlHold, h_failed, h_raised>>

ObsNone == UNCHANGED <<h_out, h_trk, h_sink, h_run, h_calls, h_rlHold, h_failed, h_raised>>

Bump(n, made) == IF made /\ n < MaxCalls THEN n + 1 ELSE n

\* a capture that did not succeed ends the run of consecutive results
ObsCaptureDone(c, res) ==
  /\ ObsCycle(c, CASE res = "ok" -> h_out [] res = "fail" -> "capfail"
                   [] res = "raise" -> "capraise", h_trk, h_sink)
  /\ ObsRuns(c, IF res = "ok" THEN h_run ELSE "norun",
                IF res = "ok" THEN h_calls ELSE 0)
  /\ UNCHANGED <<h_rlHold, h_failed, h_raised>>

\* a recognition call that raised ends the run; with the signature it is
\* the rate-limit error, made with the client the task holds
ObsRecognizeRaise(c, sig) ==
  /\ ObsCycle(c, IF sig THEN "rl" ELSE "err", h_trk, h_sink)
  /\ ObsRuns(c, "norun", 0)
  /\ ObsRate(c, IF sig THEN RateLimitSleep ELSE h_rlHold,
                IF sig THEN shazam[c] ELSE 0, FALSE)

\* the run a Matched(k) cycle belongs to: it continues a run of k, or starts
\* one when the stored key differs from k
RunOfMatch(c, k) ==
  IF k = None THEN "norun"
  ELSE IF h_run = k \/ Get(LAST_DETECTED_KEY, c) # k THEN k
  ELSE "norun"

\* likewise for a NoMatch cycle: the run starts after a 'music' state
RunOfNoMatch(c) ==
  IF h_run = "silence" \/ Get(LAST_SENT_STATUS, c) = "music" THEN "silence" ELSE "norun"

CallsOf(run, made) ==
  IF run = "norun" THEN 0 ELSE Bump(IF h_run = run THEN h_calls ELSE 0, made)

\* save_to_firebase_rest is called when the track is no duplicate and
\* FIREBASE_READY (lines 173-178)
PublishCalled(c, k) == ~IsDuplicate(c, k) /\ FIREBASE_READY

\* clear_now_playing_rest is called when the status is not 'empty' and
\* FIREBASE_READY (lines 226-229)
ClearCalled(c) == Get(LAST_SENT_STATUS, c) # "empty" /\ FIREBASE_READY

ObsRecognizeMatched(c, k) ==
  /\ ObsCycle(c, "matched", k, IF PublishCalled(c, k) THEN "publish" ELSE h_sink)
  /\ ObsRuns(c, RunOfMatch(c, k), CallsOf(RunOfMatch(c, k), PublishCalled(c, k)))
  /\ ObsRate(c, h_rlHold, 0, FALSE)

ObsRecognizeNoMatch(c) ==
  /\ ObsCycle(c, "nomatch", h_trk, IF ClearCalled(c) THEN "clear" ELSE h_sink)
  /\ ObsRuns(c, RunOfNoMatch(c), CallsOf(RunOfNoMatch(c), ClearCalled(c)))
  /\ ObsRate(c, h_rlHold, 0, FALSE)

ObsRlSleepDone(c, ctorOk) ==
  /\ ObsRate(c, h_rlHold, h_failed, IF ctorOk THEN h_raised ELSE (h_failed # 0))
  /\ UNCHANGED <<h_out, h_trk, h_sink, h_run, h_calls>>

\* a new cycle begins
ObsWaitDone(c) ==
  /\ ObsCycle(c, "-", None, "none")
  /\ UNCHANGED <<h_run, h_calls, h_rlHold, h_failed, h_raised>>

ObsTick ==
  /\ ObsRate(probe, Elapse(h_rlHold), h_failed, h_raised)
  /\ UNCHANGED <<h_out, h_trk, h_sink, h_run, h_calls>>

Observe(obs) == obs /\ UNCHANGED <<probe, watch>>

Obs2Init ==
  /\ h_pub = None
  /\ h_prevKeyless = FALSE
  /\ h_scn = "-"
  /\ h_wHold = 0
  /\ h_waited = FALSE

SetPubs(c, pub, prevKeyless) ==
  IF Watching(c, "pubs")
    THEN h_pub' = pub /\ h_prevKeyless' = prevKeyless
    ELSE UNCHANGED <<h_pub, h_prevKeyless>>

SetScn(c, scn) ==
  IF Watching(c, "scn") THEN h_scn' = scn ELSE UNCHANGED h_scn

SetPace(c, hold) ==
  IF Watching(c, "pace") THEN h_wHold' = hold ELSE UNCHANGED h_wHold

SetSlot(c, waited) ==
  IF Watching(c, "slot") THEN h_waited' = waited ELSE UNCHANGED h_waited

\* the sink call returned: only an exception of get_access_token (lines 70,
\* 108) leaves save_to_firebase_rest or clear_now_playing_rest by raising
Returned(tok) == tok # "raise"

\* the scenario restarts after its last step
ScnBase == IF h_scn \in {"ABA", "AcA"} THEN "A" ELSE h_scn

\* a Matched(k) cycle in the scenario; called: save_to_firebase_rest is called
ScnMatched(k, called) ==
  CASE ScnBase = "bad" -> "bad"
    [] ScnBase = "AB" /\ k = "A" -> IF called THEN "ABA" ELSE "bad"
    [] ScnBase = "Ac" /\ k = "A" -> IF called THEN "AcA" ELSE "bad"
    [] ScnBase = "A" /\ k = "B" /\ called -> "AB"
    [] ScnBase \in {"A", "-"} /\ k = "A" /\ called -> "A"
    [] ScnBase = "A" /\ k = "A" /\ ~called -> "A"
    [] ScnBase = "AB" /\ k = "B" /\ ~called -> "AB"
    [] OTHER -> "-"

\* a NoMatch cycle in the scenario; called: clear_now_playing_rest is called
ScnNoMatch(called) ==
  CASE ScnBase = "bad" -> "bad"
    [] ScnBase = "A" /\ called -> "Ac"
    [] ScnBase = "Ac" /\ ~called -> "Ac"
    [] OTHER -> "-"

\* the wait that begins now lasts at least the base interval
HoldForWait == Max(h_wHold, BaseInterval)

\* a cooldown of 30 s and then the wait
HoldForCooldown == CaptureFailSleep + BaseInterval

Keep2 == UNCHANGED hist2

RecCaptureDone(c, res) ==
  /\ SetPace(c, IF res = "ok" THEN h_wHold ELSE HoldForCooldown)
  /\ SetSlot(c, res = "ok" /\ ~LockFree)
  /\ UNCHANGED <<h_pub, h_prevKeyless, h_scn>>

RecRecognizeRaise(c) ==
  /\ SetPace(c, HoldForWait)
  /\ SetSlot(c, FALSE)
  /\ UNCHANGED <<h_pub, h_prevKeyless, h_scn>>

RecRecognizeMatched(c, k, tok) ==
  /\ SetPubs(c, IF PublishCalled(c, k) /\ Returned(tok) THEN k ELSE h_pub,
              h_prevKeyless)
  /\ SetScn(c, ScnMatched(k, PublishCalled(c, k)))
  /\ SetPace(c, HoldForWait)
  /\ SetSlot(c, FALSE)

RecRecognizeNoMatch(c, tok) ==
  /\ SetPubs(c, IF ClearCalled(c) /\ Returned(tok) THEN None ELSE h_pub,
              h_prevKeyless)
  /\ SetScn(c, ScnNoMatch(ClearCalled(c)))
  /\ SetPace(c, HoldForWait)
  /\ SetSlot(c, FALSE)

\* the cycle is over: the wait begins
RecCycleEnd(c) ==
  /\ SetPace(c, HoldForWait)
  /\ UNCHANGED <<h_pub, h_prevKeyless, h_scn, h_waited>>

RecRlSleepDone(c, ctorOk) ==
  /\ SetPace(c, IF ctorOk THEN HoldForWait ELSE HoldForCooldown)
  /\ UNCHANGED <<h_pub, h_prevKeyless, h_scn, h_waited>>

\* a new cycle begins: remember whether the last one published a track
\* without a key
RecWaitDone(c) ==
  /\ SetPubs(c, h_pub, h_out = "matched" /\ h_trk = None /\ h_sink = "publish")
  /\ UNCHANGED <<h_scn, h_wHold, h_waited>>

RecTick ==
  /\ SetPace(probe, Elapse(h_wHold))
  /\ UNCHANGED <<h_pub, h_prevKeyless, h_scn, h_waited>>

\* ---------------------------------------------------------------- Next
Init == ProgInit /\ ObsInit /\ Obs2Init /\ probe \in Channels /\ watch = {"cycle", "rate"}

\* every step task c can take
ChanNext(c) ==
  \/ \E ctorOk \in BoolSet :
        Start(c, ctorOk) /\ Observe(ObsNone) /\ Keep2
  \/ \E res \in CaptureResults :
        CaptureDone(c, res) /\ Observe(ObsCaptureDone(c, res))
          /\ RecCaptureDone(c, res)
  \/ LockResume(c) /\ Observe(ObsNone) /\ Keep2
  \/ \E sig \in BoolSet, j \in Jitters :
        RecognizeRaise(c, sig, j) /\ Observe(ObsRecognizeRaise(c, sig))
          /\ RecRecognizeRaise(c)
  \/ \E k \in TrackKeys, tok \in TokenResults, sig \in BoolSet, j \in Jitters :
        RecognizeMatched(c, k, tok, sig, j) /\ Observe(ObsRecognizeMatched(c, k))
          /\ RecRecognizeMatched(c, k, tok)
  \/ \E tok \in TokenResults, sig \in BoolSet, j \in Jitters :
        RecognizeNoMatch(c, tok, sig, j) /\ Observe(ObsRecognizeNoMatch(c))
          /\ RecRecognizeNoMatch(c, tok)
  \/ \E resp \in HttpResults, j \in Jitters :
        PublishDone(c, resp, j) /\ Observe(ObsNone) /\ RecCycleEnd(c)
  \/ \E resp \in HttpResults, j \in Jitters :
        ClearDone(c, resp, j) /\ Observe(ObsNone) /\ RecCycleEnd(c)
  \/ \E ctorOk \in BoolSet, j \in Jitters :
        RlSleepDone(c, ctorOk, j) /\ Observe(ObsRlSleepDone(c, ctorOk))
          /\ RecRlSleepDone(c, ctorOk)
  \/ \E j \in Jitters :
        CapFailSleepDone(c, j) /\ Observe(ObsNone) /\ RecCycleEnd(c)
  \/ \E j \in Jitters :
        CritSleepDone(c, j) /\ Observe(ObsNone) /\ RecCycleEnd(c)
  \/ WaitDone(c) /\ Observe(ObsWaitDone(c)) /\ RecWaitDone(c)

MainStep == MainExit /\ UNCHANGED hist /\ Keep2

ClockStep == Tick /\ Observe(ObsTick) /\ RecTick

Next ==
  \/ \E c \in Channels : ChanNext(c)
  \/ MainStep
  \/ ClockStep

Spec == Init /\ [][Next]_vars

\* the same program with the observers of runs switched on
InitRuns == ProgInit /\ ObsInit /\ Obs2Init /\ probe \in Channels /\ watch = {"cycle", "runs"}

RunSpec == InitRuns /\ [][Next]_vars

\* The event loop runs every task that can run, the clock advances and
\* every awaited call returns; no observer is switched on.
InitFair == ProgInit /\ ObsInit /\ Obs2Init /\ probe = "fm" /\ watch = {}

Fairness ==
  /\ \A c \in Channels : WF_vars(ChanNext(c))
  /\ WF_vars(MainStep)
  /\ WF_vars(ClockStep)

FairSpec == InitFair /\ [][Next]_vars /\ Fairness

\* the same program with the observers of publications switched on
InitPubs == ProgInit /\ ObsInit /\ Obs2Init /\ probe \in Channels /\ watch = {"cycle", "pubs"}

PubSpec == InitPubs /\ [][Next]_vars

\* ... of the scenario
InitScn == ProgInit /\ ObsInit /\ Obs2Init /\ probe \in Channels /\ watch = {"scn"}

ScnSpec == InitScn /\ [][Next]_vars

\* ... of the pace of the cycles
InitPace == ProgInit /\ ObsInit /\ Obs2Init /\ probe \in Channels /\ watch = {"cycle", "pace"}

PaceSpec == InitPace /\ [][Next]_vars

\* ... of the lock queue, under the scheduling of FairSpec
InitSlot == ProgInit /\ ObsInit /\ Obs2Init /\ probe = "efm" /\ watch = {"slot"}

SlotSpec == InitSlot /\ [][Next]_vars /\ Fairness

\* ---------------------------------------------------------------- claims
Key(c) == Get(LAST_DETECTED_KEY, c)
Status(c) == Get(LAST_SENT_STATUS, c)
Recognizing == {c \in Channels : pc[c] = "recognize"}
AtBoundary == pc[probe] = "wait"

\* C1: at most one channel has a recognition call in flight, the lock is
\* held while it has, and so a channel that reaches recognition while the
\* slot is held is not inside recognition before the release.
C1_MutualExclusion ==
  /\ Cardinality(Recognizing) <= 1
  /\ Recognizing # {} => locked
  /\ \A c \in Channels : pc[c] \in {"lock_wait", "lock_woken"} =>
        \E i \in 1..Len(waiters) : waiters[i] = c

C1_Witness ==
  \E c, d \in Channels : pc[c] = "recognize" /\ pc[d] = "lock_wait"

\* C2: with the store configured, at the end of each of N >= 1 consecutive
\* cycles that matched the same present key, the run having started with
\* another stored key, exactly one publishCurrent call has been made in the
\* run and the stored key is that key.
C2_DedupIdempotence ==
  (FIREBASE_READY /\ AtBoundary /\ h_run \in Keys) =>
     (h_calls = 1 /\ Key(probe) = h_run)

\* C3: with the store configured, at the end of each of N >= 1 consecutive
\* NoMatch cycles after a 'music' state, exactly one clearCurrent call has
\* been made in the run and the status is 'empty'.
C3_SilenceCollapse ==
  (FIREBASE_READY /\ AtBoundary /\ h_run = "silence") =>
     (h_calls = 1 /\ Status(probe) = "empty")

\* C4: a capture that follows a recognition call ended by the rate-limit
\* signature begins no earlier than 60 s after that error.
C4_RateLimitBackoff ==
  (pc[probe] = "capture" /\ h_failed # 0) => h_rlHold = 0

C4_Witness ==
  pc[probe] = "capture" /\ h_failed # 0 /\ h_rlHold = 0

\* C5: the recognition call that follows a rate-limit error is made with a
\* client instance other than the one of the call that failed.
C5_ClientRebuilt ==
  (pc[probe] = "recognize" /\ h_failed # 0) =>
     shazam[probe] # h_failed

\* C6: a cycle whose capture returned ok = false makes no PublicationSink
\* call, never waits for or takes the slot and leaves the channel's state as
\* it was; a PublicationSink call is made only in a cycle whose capture
\* succeeded and whose recognition call returned.
C6_CaptureFailureContained ==
  /\ [](h_out = "capfail" =>
          /\ h_sink = "none"
          /\ pc[probe] \in {"capfail_sleep", "wait", "cancelled"})
  /\ [](h_sink # "none" => h_out \in {"matched", "nomatch"})
  /\ [][h_out' = "capfail" =>
          /\ LAST_DETECTED_KEY'[probe] = LAST_DETECTED_KEY[probe]
          /\ LAST_SENT_STATUS'[probe] = LAST_SENT_STATUS[probe]
          /\ h_sink' = "none"]_vars

C6_Witness ==
  AtBoundary /\ h_out = "capfail" /\ Key(probe) \in Keys

\* C7: every channel that entered its loop begins a capture again and again.
C7_CaptureInfinitelyOften ==
  \A c \in Channels : [](shazam[c] > 0 => <>(pc[c] = "capture"))

\* C8: no exception ends a channel task or the process: no task is ever
\* terminated by an exception or cancelled because another task raised.
C8_NoTaskTerminates ==
  /\ mainState = "running"
  /\ \A c \in Channels : pc[c] \notin {"crashed", "cancelled"}

\* C9: a cycle in which publishCurrent was called ends with the status
\* 'music' and the track's key stored, a cycle in which clearCurrent was called
\* ends with {absent, empty}, whatever became of the call; and no call is
\* repeated on the following cycles of the same result.
C9_SinkFailureKeepsDedup ==
  /\ (AtBoundary /\ h_sink = "publish") =>
        /\ Status(probe) = "music"
        /\ h_trk # None => Key(probe) = h_trk
  /\ (AtBoundary /\ h_sink = "clear") =>
        /\ Status(probe) = "empty"
        /\ Key(probe) = None
  /\ (AtBoundary /\ h_run # "norun") => h_calls <= 1

\* C10: a channel whose status is 'empty' has no stored key.
C10_EmptyImpliesNoKey ==
  \A c \in Channels : Status(c) = "empty" => Key(c) = None

C10_Witness ==
  AtBoundary /\ h_out = "nomatch" /\ h_sink = "clear" /\ Status(probe) = "empty"

\* the observed channel's state takes a new value in this step
StateChanges ==
  \/ Get(LAST_DETECTED_KEY', probe) # Key(probe)
  \/ Get(LAST_SENT_STATUS', probe) # Status(probe)

\* C11 as stated: the channel's key or status takes a new value only in a
\* cycle that has made a PublicationSink call.
C11_ChangeOnlyWhenPublished ==
  [][StateChanges => h_sink' # "none"]_vars

\* C11, amended: with the store configured (FIREBASE_READY), the channel's
\* key or status takes a new value only in a cycle that has made a
\* PublicationSink call; suppressed duplicates, suppressed silences and
\* cycles without a call leave both as they were.
C11_ChangeOnlyWhenPublished_Configured ==
  [][(FIREBASE_READY /\ StateChanges) => h_sink' # "none"]_vars

C11_Witness ==
  /\ FIREBASE_READY /\ AtBoundary
  /\ h_out = "matched" /\ h_sink = "none" /\ h_trk \in Keys
  /\ Key(probe) = h_trk /\ Status(probe) = "music"

\* C12: at every cycle boundary the stored key is the key of the channel's
\* last publication: absent when nothing was published, when the published
\* track had no key or when a clear was published since.
C12_KeyTracksLastPublication ==
  AtBoundary => Key(probe) = h_pub

\* C13 as stated: every Matched cycle whose track has no key makes a
\* publishCurrent call.
C13_KeylessNeverSuppressed ==
  (h_out = "matched" /\ h_trk = None) => h_sink = "publish"

\* C13, amended: with the store configured (FIREBASE_READY), every Matched
\* cycle whose track has no key makes a publishCurrent call, whatever the
\* stored key and status are, on consecutive cycles too.
C13_KeylessNeverSuppressed_Configured ==
  (FIREBASE_READY /\ h_out = "matched" /\ h_trk = None) => h_sink = "publish"

C13_Witness ==
  /\ h_prevKeyless /\ Key(probe) \in Keys
  /\ h_out = "matched" /\ h_trk = None /\ h_sink = "publish"

\* C14: a step of channel c's task leaves the key and the status of every
\* other channel as they were: no step that gives another channel's entry a
\* new value is a step of c.
C14_ExclusiveOwnership ==
  [][\A c \in Channels : \A d \in Channels \ {c} :
        (\/ LAST_DETECTED_KEY'[d] # LAST_DETECTED_KEY[d]
         \/ LAST_SENT_STATUS'[d] # LAST_SENT_STATUS[d]) => ~ChanNext(c)]_vars

C14_Witness ==
  /\ Key("fm") = "A" /\ Key("efm") = "B"
  /\ Status("fm") = "music" /\ Status("efm") = "music"

\* C15: the lock is held only while a recognition call is in flight: a
\* channel that is publishing, sleeping after an error, cooling down,
\* waiting or capturing does not hold it.
C15_SlotHeldOnlyInCall ==
  /\ locked => \E c \in Channels : pc[c] = "recognize"
  /\ (\A c \in Channels : pc[c] # "recognize") => ~locked

C15_Witness ==
  /\ ~locked
  /\ \E c, d \in Channels :
        pc[c] = "rl_sleep" /\ timer[c] > 0 /\ pc[d] \in {"publishing", "clearing"}

\* C16: a cycle whose recognition call raised (rate-limit signature or not)
\* makes no PublicationSink call and leaves the key and the status as they
\* were; without the signature the task goes straight to the inter-cycle
\* wait.
C16_RecognitionErrorFrame ==
  /\ [](h_out \in {"rl", "err"} => h_sink = "none")
  /\ [](h_out = "err" =>
          /\ pc[probe] \in {"wait", "cancelled"}
          /\ timer[probe] <= BaseInterval + MaxJitter)
  /\ [][h_out' \in {"rl", "err"} => ~StateChanges]_vars

C16_Witness ==
  /\ AtBoundary /\ h_out = "err" /\ Key(probe) \in Keys
  /\ Status(probe) = "music"

\* C17: a channel for which publishCurrent was called with key A and then
\* publishCurrent with key B, or clearCurrent, has publishCurrent called
\* with key A again when A is detected next: the duplicate test looks at the
\* key of the last publication only.
C17_DedupAgainstPriorKeyOnly ==
  h_scn # "bad"

\* C18: a capture starts whether or not the lock is held, and only a task
\* whose capture is done is queued for the lock.
C18_CaptureNotGated ==
  /\ \A c \in Channels :
        (Running(c) /\ pc[c] = "wait" /\ timer[c] = 0) => ENABLED WaitDone(c)
  /\ \A i \in 1..Len(waiters) : pc[waiters[i]] \in {"lock_wait", "lock_woken"}

C18_Witness ==
  \E c, d \in Channels : pc[c] = "capture" /\ pc[d] = "recognize" /\ locked

\* C19: a capture other than the first begins only out of the inter-cycle
\* wait, which lasts 30 s plus at most 5 s and has then lasted at least 30 s;
\* after a failed capture or an exception caught by the outer handler at
\* least 30 s of cooldown and 30 s of wait have passed.
C19_EveryCycleWaits ==
  /\ [](pc[probe] = "capture" => h_wHold = 0)
  /\ []((pc[probe] = "wait" /\ timer[probe] = 0) => h_wHold = 0)
  /\ [](pc[probe] = "wait" => timer[probe] <= BaseInterval + MaxJitter)
  /\ [][(pc'[probe] = "capture" /\ pc[probe] # "capture") =>
           pc[probe] \in {"wait", "starting"}]_vars

C19_Witness ==
  /\ pc[probe] = "wait" /\ timer[probe] = 0 /\ h_wHold = 0
  /\ h_out \in {"capfail", "capraise"}

\* C20: every recognition call returning, a task queued for the lock gets it
\* and makes its recognition call; a queued task always has a task ahead of
\* it that holds the lock or was handed it, and while the process runs some
\* step is possible.
C20_NoStarvation ==
  /\ \A c \in Channels : (pc[c] = "lock_wait") ~> (pc[c] = "recognize")
  /\ [](\A c \in Channels : pc[c] = "lock_wait" =>
          \E d \in Channels \ {c} : pc[d] \in {"recognize", "lock_woken"})
  /\ [](mainState = "running" => ENABLED Next)

C20_Witness ==
  pc[probe] = "recognize" /\ h_waited /\ locked

====
